---- MODULE Spec2Model ----
(***************************************************************************)
(* Model of pytubefix/cli.py: the stream selection, the file-name          *)
(* allocation and the download orchestration of the command-line tool.     *)
(*                                                                         *)
(* The target directory is a function from the names of the files it       *)
(* holds to their sizes in bytes.  A path is the name of a file inside     *)
(* the target directory.  Each invocation of a cli function is a run of    *)
(* a process; its local variables live in frame[p].                        *)
(***************************************************************************)
EXTENDS Integers, Sequences, FiniteSets, TLC

VARIABLES
    catalog,   \* yt.streams: the streams of the video, in the catalog's order
    op,        \* the cli function invoked and its arguments
    dir,       \* the target directory: file name -> size
    dir0,      \* the target directory before the first run (history)
    limit,     \* how many runs each process may start
    pc,        \* per process: the step of the running function, or "idle"
    run,       \* per process: the number of runs started
    frame,     \* per process: the local variables of the running function
    events,    \* per process: what it printed, transferred, muxed, raised
    allocs     \* the names _unique_name returned, in call order

vars == <<catalog, op, dir, dir0, limit, pc, run, frame, events, allocs>>

(***************************************************************************)
(* Bounds.                                                                 *)
(***************************************************************************)
MaxRuns == 2         \* sequential runs of one orchestrator
MaxRaceRuns == 1     \* runs of each of the two concurrent orchestrators
MaxCalls == 4        \* sequential calls of _unique_name
PlaylistLen == 2     \* videos of a playlist

Procs == {"A", "B"}

None == "None"
NoStream == [none |-> TRUE]
AttributeError == [raise |-> "AttributeError"]

(***************************************************************************)
(* Streams.                                                                *)
(***************************************************************************)
Stream(itag, subtype, progressive, resolution, abr, filesize) ==
    [itag |-> itag, subtype |-> subtype, progressive |-> progressive,
     resolution |-> resolution, abr |-> abr, filesize |-> filesize]

AllStreams ==
    << Stream(22,  "mp4",  TRUE,  "720p",  "192kbps", 3),
       Stream(18,  "mp4",  TRUE,  "360p",  "96kbps",  2),
       Stream(43,  "webm", TRUE,  "360p",  "128kbps", 2),
       Stream(248, "webm", FALSE, "1080p", None,      3),
       Stream(136, "mp4",  FALSE, "720p",  None,      2),
       Stream(247, "webm", FALSE, "720p",  None,      2),
       Stream(251, "webm", FALSE, None,    "160kbps", 3),
       Stream(140, "mp4",  FALSE, None,    "128kbps", 2) >>

Itags == {AllStreams[i].itag : i \in 1..Len(AllStreams)}

\* A catalog: the streams of AllStreams with the itags I, in AllStreams' order.
Pick(I) == SelectSeq(AllStreams, LAMBDA s : s.itag \in I)

Catalogs == {Pick(I) : I \in SUBSET Itags}
AdaptiveCatalogs == {Pick(I) : I \in SUBSET {248, 136, 247, 251, 140}}

\* int("".join(filter(str.isdigit, value)))
NumericValue ==
    ("360p" :> 360) @@ ("720p" :> 720) @@ ("1080p" :> 1080) @@
    ("96kbps" :> 96) @@ ("128kbps" :> 128) @@ ("160kbps" :> 160) @@
    ("192kbps" :> 192)

(***************************************************************************)
(* StreamQuery.                                                            *)
(***************************************************************************)
filter_progressive(q, progressive) ==
    SelectSeq(q, LAMBDA s : s.progressive = progressive)

filter_subtype(q, subtype) == SelectSeq(q, LAMBDA s : s.subtype = subtype)

filter_resolution(q, resolution) ==
    SelectSeq(q, LAMBDA s : s.resolution = resolution)

\* s placed after every stream of the sorted query whose key is not greater.
insert_sorted(srt, s, attribute_name) ==
    LET key(x) == NumericValue[x[attribute_name]]
        k == Cardinality({i \in 1..Len(srt) : key(srt[i]) <= key(s)})
    IN  SubSeq(srt, 1, k) \o <<s>> \o SubSeq(srt, k + 1, Len(srt))

RECURSIVE sorted(_, _)
sorted(q, attribute_name) ==
    IF q = <<>> THEN <<>>
    ELSE insert_sorted(sorted(SubSeq(q, 1, Len(q) - 1), attribute_name),
                       q[Len(q)], attribute_name)

\* The streams that have the attribute, in ascending numeric order (stable).
order_by(q, attribute_name) ==
    sorted(SelectSeq(q, LAMBDA s : s[attribute_name] # None), attribute_name)

first(q) == IF q = <<>> THEN NoStream ELSE q[1]

last(q) == IF q = <<>> THEN NoStream ELSE q[Len(q)]

get_by_itag(q, itag) == first(SelectSeq(q, LAMBDA s : s.itag = itag))

(***************************************************************************)
(* Stream: file names.                                                     *)
(***************************************************************************)
default_filename(title, s) == title \o "." \o s.subtype

get_file_path(title, s, filename) ==
    IF filename = None THEN default_filename(title, s) ELSE filename

exists_at_path(s, d, file_path) ==
    file_path \in DOMAIN d /\ d[file_path] = s.filesize

path_exists(d, file_path) == file_path \in DOMAIN d

\* The directory d after a write of size bytes to file_path.
written(d, file_path, size) == (file_path :> size) @@ d

(***************************************************************************)
(* _unique_name                                                            *)
(***************************************************************************)
candidate_name(base, media_type, counter) ==
    base \o "_" \o media_type \o "_" \o ToString(counter)

RECURSIVE unique_from(_, _, _, _, _)
unique_from(base, subtype, media_type, d, counter) ==
    LET file_name == candidate_name(base, media_type, counter)
        file_path == file_name \o "." \o subtype
    IN  IF ~path_exists(d, file_path) THEN file_name
        ELSE unique_from(base, subtype, media_type, d, counter + 1)

\* A faulty variant: the existence test leaves the extension out.
unique_name_without_extension(base, subtype, media_type, d) ==
    LET taken == {c \in 0..Cardinality(DOMAIN d) :
                     path_exists(d, candidate_name(base, media_type, c))}
    IN  candidate_name(base, media_type, Cardinality(taken))

_unique_name(base, subtype, media_type, d) ==
    unique_from(base, subtype, media_type, d, 0)

(***************************************************************************)
(* Events and frames.                                                      *)
(***************************************************************************)
Title == "T"

EmptyFrame ==
    [title |-> Title, video_stream |-> NoStream, audio_stream |-> NoStream,
     video_file_name |-> None, audio_file_name |-> None,
     video_path |-> None, audio_path |-> None,
     stream |-> NoStream, filename |-> None, file_path |-> None,
     phase |-> None, index |-> 0, dir_at_alloc |-> {}]

Ev(p, name, phase, path) ==
    [run |-> run[p], ev |-> name, phase |-> phase, path |-> path]

\* The process p goes to step with the frame fr, having logged evs.
Goto(p, step, fr, evs) ==
    /\ pc' = [pc EXCEPT ![p] = step]
    /\ frame' = [frame EXCEPT ![p] = fr]
    /\ events' = [events EXCEPT ![p] = @ \o evs]

Return(p, fr, evs) ==
    Goto(p, "idle", fr, evs \o <<Ev(p, "return", None, None)>>)

Raise(p, fr, evs) ==
    Goto(p, "idle", fr, evs \o <<Ev(p, "raise", None, None)>>)

Fixed == UNCHANGED <<catalog, op, dir0, limit, allocs>>

(***************************************************************************)
(* A cli function is called.                                               *)
(***************************************************************************)
Call(p) ==
    /\ pc[p] = "idle"
    /\ run[p] < limit[p]
    /\ run' = [run EXCEPT ![p] = @ + 1]
    /\ pc' = [pc EXCEPT ![p] = op.fn]
    /\ frame' = [frame EXCEPT ![p] = EmptyFrame]
    /\ UNCHANGED <<dir, events>>
    /\ Fixed

(***************************************************************************)
(* ffmpeg_process                                                          *)
(***************************************************************************)
\* A faulty variant: the explicit resolution is looked up among all the streams.
select_video_of_any_kind(q, resolution) ==
    first(filter_resolution(q, resolution))

\* Lines 131-139: the video stream, NoStream, or the AttributeError of
\* reading .resolution of None.
select_video(q, resolution) ==
    IF resolution = None \/ resolution = "best"
    THEN LET highest_quality_stream ==
                 last(order_by(filter_progressive(q, FALSE), "resolution"))
             mp4_stream ==
                 last(order_by(filter_subtype(filter_progressive(q, FALSE),
                                              "mp4"), "resolution"))
         IN  IF highest_quality_stream = NoStream \/ mp4_stream = NoStream
             THEN AttributeError
             ELSE IF highest_quality_stream.resolution = mp4_stream.resolution
                  THEN mp4_stream
                  ELSE highest_quality_stream
    ELSE first(filter_resolution(filter_progressive(q, FALSE), resolution))

select_audio(q) == last(order_by(filter_progressive(q, FALSE), "abr"))

\* Lines 126-143.
ffmpeg_process(p) ==
    /\ pc[p] = "ffmpeg_process"
    /\ LET video_stream == select_video(catalog, op.resolution)
       IN  IF video_stream = AttributeError
           THEN Raise(p, frame[p], <<>>)
           ELSE IF video_stream = NoStream
           THEN Return(p, frame[p], <<Ev(p, "not_found", None, None)>>)
           ELSE Goto(p, "ffmpeg_allocate",
                     [frame[p] EXCEPT !.video_stream = video_stream], <<>>)
    /\ UNCHANGED <<dir, run>>
    /\ Fixed

\* A faulty variant: the allocation creates the files it names.
FfmpegAllocate_reserving(p) ==
    /\ pc[p] = "ffmpeg_allocate"
    /\ LET f == frame[p]
           audio_stream == select_audio(catalog)
           video_file_name == _unique_name(f.title, "mp4", "video", dir)
           audio_file_name == _unique_name(f.title, "mp4", "audio", dir)
           fr == [f EXCEPT !.audio_stream = audio_stream,
                           !.video_file_name = video_file_name,
                           !.audio_file_name = audio_file_name,
                           !.video_path = video_file_name,
                           !.audio_path = audio_file_name,
                           !.dir_at_alloc = DOMAIN dir]
       IN  /\ Goto(p, IF audio_stream = NoStream THEN "idle" ELSE "ffmpeg_exists",
                   fr, <<Ev(p, "allocate", "video", video_file_name),
                         Ev(p, "allocate", "audio", audio_file_name)>>)
           /\ dir' = written(written(dir, video_file_name \o "." \o "mp4", 0),
                             audio_file_name \o "." \o "mp4", 0)
    /\ UNCHANGED run
    /\ Fixed

\* Lines 145-151.
FfmpegAllocate(p) ==
    /\ pc[p] = "ffmpeg_allocate"
    /\ LET f == frame[p]
           audio_stream == select_audio(catalog)
           video_file_name == _unique_name(f.title, "mp4", "video", dir)
           audio_file_name == _unique_name(f.title, "mp4", "audio", dir)
           fr == [f EXCEPT !.audio_stream = audio_stream,
                           !.video_file_name = video_file_name,
                           !.audio_file_name = audio_file_name,
                           !.dir_at_alloc = DOMAIN dir]
           alloc == <<Ev(p, "allocate", "video", video_file_name),
                      Ev(p, "allocate", "audio", audio_file_name)>>
       IN  IF audio_stream = NoStream
           THEN Raise(p, fr, alloc)
           ELSE Goto(p, "ffmpeg_exists",
                     [fr EXCEPT
                        !.video_path = get_file_path(f.title, f.video_stream,
                                                     video_file_name),
                        !.audio_path = get_file_path(f.title, audio_stream,
                                                     audio_file_name)],
                     alloc)
    /\ UNCHANGED <<dir, run>>
    /\ Fixed

\* Lines 153-157.
FfmpegExists(p) ==
    /\ pc[p] = "ffmpeg_exists"
    /\ LET f == frame[p]
       IN  IF path_exists(dir, f.video_path) /\ path_exists(dir, f.audio_path)
           THEN Return(p, f, <<Ev(p, "already", "both", None)>>)
           ELSE Goto(p, "_download",
                     [f EXCEPT !.stream = f.video_stream,
                               !.filename = f.video_file_name,
                               !.phase = "video"], <<>>)
    /\ UNCHANGED <<dir, run>>
    /\ Fixed

(***************************************************************************)
(* _download and Stream.download                                           *)
(***************************************************************************)
\* What follows the return of a download: line 158, line 161, or the
\* caller's return.
AfterDownload(p, f, evs) ==
    CASE f.phase = "video" ->
            Goto(p, "_download",
                 [f EXCEPT !.stream = f.audio_stream,
                           !.filename = f.audio_file_name,
                           !.phase = "audio"], evs)
      [] f.phase = "audio" -> Goto(p, "mux", f, evs)
      [] f.phase = "url" ->
            Goto(p, "main_playlist", f, evs \o <<Ev(p, "processed", "url", None)>>)
      [] f.phase = "playlist" ->
            Goto(p, "download_playlist_audio", [f EXCEPT !.index = @ + 1], evs)
      [] OTHER -> Return(p, f, evs)

\* A faulty variant: no look at the file before the transfer.
download_without_check(p) ==
    /\ pc[p] = "_download"
    /\ Goto(p, "transfer",
            [frame[p] EXCEPT !.file_path =
                get_file_path(frame[p].title, frame[p].stream, frame[p].filename)],
            <<>>)
    /\ UNCHANGED <<dir, run>>
    /\ Fixed

\* Lines 81-89, up to the call of stream.download.
_download(p) ==
    /\ pc[p] = "_download"
    /\ LET f == frame[p]
           file_path == get_file_path(f.title, f.stream, f.filename)
           fr == [f EXCEPT !.file_path = file_path]
       IN  IF exists_at_path(f.stream, dir, file_path)
           THEN AfterDownload(p, fr, <<Ev(p, "already", f.phase, file_path)>>)
           ELSE Goto(p, "transfer", fr, <<>>)
    /\ UNCHANGED <<dir, run>>
    /\ Fixed

\* stream.download: an existing complete file is skipped, else the file is
\* opened for writing, which truncates it.
TransferBegin(p) ==
    /\ pc[p] = "transfer"
    /\ LET f == frame[p]
       IN  IF exists_at_path(f.stream, dir, f.file_path)
           THEN /\ AfterDownload(p, f, <<Ev(p, "skip", f.phase, f.file_path)>>)
                /\ dir' = dir
           ELSE /\ Goto(p, "transferring", f,
                        <<Ev(p, "transfer_begin", f.phase, f.file_path)>>)
                /\ dir' = written(dir, f.file_path, 0)
    /\ UNCHANGED run
    /\ Fixed

\* stream.download: the last chunk is written and the call returns.
TransferEnd(p) ==
    /\ pc[p] = "transferring"
    /\ LET f == frame[p]
       IN  /\ AfterDownload(p, f,
                            <<Ev(p, "transfer_end", f.phase, f.file_path)>>)
           /\ dir' = written(dir, f.file_path, f.stream.filesize)
    /\ UNCHANGED run
    /\ Fixed

\* A faulty variant: the exception of the transfer is caught and the run goes on.
TransferFail_caught(p) ==
    /\ pc[p] = "transferring"
    /\ LET f == frame[p]
       IN  AfterDownload(p, f, <<Ev(p, "transfer_fail", f.phase, f.file_path)>>)
    /\ UNCHANGED <<dir, run>>
    /\ Fixed

\* stream.download raises; nothing catches it; the partial file stays.
TransferFail(p) ==
    /\ pc[p] = "transferring"
    /\ LET f == frame[p]
       IN  Raise(p, f, <<Ev(p, "transfer_fail", f.phase, f.file_path)>>)
    /\ UNCHANGED <<dir, run>>
    /\ Fixed

\* Lines 160-164: subprocess.run(command).  The exit status is not read;
\* a missing executable raises.
Mux(p) ==
    /\ pc[p] = "mux"
    /\ LET f == frame[p]
           output == f.title \o "." \o "mp4"
           mux == <<Ev(p, "mux", None, output)>>
       IN  \E outcome \in {"written", "nonzero", "missing"} :
              IF outcome = "written"
              THEN /\ Return(p, f, mux)
                   /\ dir' = written(dir, output, f.video_stream.filesize
                                                  + f.audio_stream.filesize)
              ELSE IF outcome = "nonzero"
              THEN /\ Return(p, f, mux)
                   /\ dir' = dir
              ELSE /\ Raise(p, f, mux)
                   /\ dir' = dir
    /\ UNCHANGED run
    /\ Fixed

(***************************************************************************)
(* The single-stream functions.                                            *)
(***************************************************************************)
\* What each does with the stream it selected: lines 181-184, 201-204,
\* 220-224.
DownloadOrReport(p, stream) ==
    IF stream = NoStream
    THEN Return(p, frame[p], <<Ev(p, "not_found", None, None)>>)
    ELSE Goto(p, "_download",
              [frame[p] EXCEPT !.stream = stream, !.filename = None,
                               !.phase = "single"], <<>>)

download_by_resolution(p) ==
    /\ pc[p] = "download_by_resolution"
    /\ DownloadOrReport(p, first(filter_resolution(catalog, op.resolution)))
    /\ UNCHANGED <<dir, run>>
    /\ Fixed

\* A faulty variant: first() for last().
download_lowest_resolution_progressive(p) ==
    /\ pc[p] = "download_highest_resolution_progressive"
    /\ DownloadOrReport(p, first(order_by(filter_progressive(catalog, TRUE),
                                          "resolution")))
    /\ UNCHANGED <<dir, run>>
    /\ Fixed

download_highest_resolution_progressive(p) ==
    /\ pc[p] = "download_highest_resolution_progressive"
    /\ DownloadOrReport(p, last(order_by(filter_progressive(catalog, TRUE),
                                         "resolution")))
    /\ UNCHANGED <<dir, run>>
    /\ Fixed

download_by_itag(p) ==
    /\ pc[p] = "download_by_itag"
    /\ DownloadOrReport(p, get_by_itag(catalog, op.itag))
    /\ UNCHANGED <<dir, run>>
    /\ Fixed

(***************************************************************************)
(* main and the functions it calls.                                        *)
(***************************************************************************)
get_highest_resolution(q) ==
    last(order_by(filter_progressive(q, TRUE), "resolution"))

get_audio_only(q) ==
    last(order_by(SelectSeq(q, LAMBDA s : /\ ~s.progressive
                                          /\ s.resolution = None
                                          /\ s.subtype = "mp4"), "abr"))

\* ys.download() of lines 274, 281, 292: on None an AttributeError, else
\* the transfer to the stream's default file name.
DownloadStream(p, f, ys, phase) ==
    IF ys = NoStream
    THEN Raise(p, f, <<>>)
    ELSE Goto(p, "transfer",
              [f EXCEPT !.stream = ys, !.phase = phase,
                        !.file_path = get_file_path(f.title, ys, None)], <<>>)

\* Lines 317-324: the arguments are parsed and the url branch is taken or not.
main(p) ==
    /\ pc[p] = "main"
    /\ IF op.args.url
       THEN IF op.args.audio
            THEN Goto(p, "download_audio", frame[p], <<>>)
            ELSE Goto(p, "download_video", frame[p], <<>>)
       ELSE Goto(p, "main_playlist", frame[p], <<>>)
    /\ UNCHANGED <<dir, run>>
    /\ Fixed

download_video(p) ==
    /\ pc[p] = "download_video"
    /\ DownloadStream(p, frame[p], get_highest_resolution(catalog), "url")
    /\ UNCHANGED <<dir, run>>
    /\ Fixed

download_audio(p) ==
    /\ pc[p] = "download_audio"
    /\ DownloadStream(p, frame[p], get_audio_only(catalog), "url")
    /\ UNCHANGED <<dir, run>>
    /\ Fixed

\* Lines 328-333.
MainPlaylist(p) ==
    /\ pc[p] = "main_playlist"
    /\ IF op.args.playlist
       THEN IF op.args.audio
            THEN Goto(p, "download_playlist_audio",
                      [frame[p] EXCEPT !.index = 1], <<>>)
            ELSE Return(p, frame[p], <<Ev(p, "processed", "playlist", None)>>)
       ELSE Return(p, frame[p], <<>>)
    /\ UNCHANGED <<dir, run>>
    /\ Fixed

\* Lines 289-293, one turn of the loop, and line 333 after the last.
download_playlist_audio(p) ==
    /\ pc[p] = "download_playlist_audio"
    /\ LET f == frame[p]
       IN  IF f.index > PlaylistLen
           THEN Return(p, f, <<Ev(p, "processed", "playlist", None)>>)
           ELSE DownloadStream(p, [f EXCEPT !.title = "P" \o ToString(f.index)],
                               get_audio_only(catalog), "playlist")
    /\ UNCHANGED <<dir, run>>
    /\ Fixed

\* Lines 256-267.  No line of main calls it.
display_streams(p) ==
    /\ pc[p] = "display_streams"
    /\ Return(p, frame[p], <<Ev(p, "display_streams", None, None)>>)
    /\ UNCHANGED <<dir, run>>
    /\ Fixed

(***************************************************************************)
(* One orchestrator, run again and again on one target directory.          *)
(***************************************************************************)
Op(fn, resolution, itag) == [fn |-> fn, resolution |-> resolution, itag |-> itag]

FfmpegOps ==
    {Op("ffmpeg_process", r, 0) : r \in {None, "best", "720p"}}

SingleOps ==
    {Op("download_by_resolution", "720p", 0),
     Op("download_highest_resolution_progressive", None, 0),
     Op("download_by_itag", None, 18),
     Op("download_by_itag", None, 248)}

\* Files another program or an earlier session left in the directory.
StaleDirs(names) == {[n \in S |-> 1] : S \in SUBSET names}

InitProcs(lim) ==
    /\ limit = lim
    /\ pc = [p \in Procs |-> "idle"]
    /\ run = [p \in Procs |-> 0]
    /\ frame = [p \in Procs |-> EmptyFrame]
    /\ events = [p \in Procs |-> <<>>]
    /\ allocs = <<>>

Init ==
    /\ catalog \in Catalogs
    /\ op \in FfmpegOps \cup SingleOps
    /\ dir \in StaleDirs({"T_video_0.mp4", "T_audio_0.mp4", "T_video_0", "T.mp4"})
    /\ dir0 = dir
    /\ InitProcs([p \in Procs |-> IF p = "A" THEN MaxRuns ELSE 0])

Next ==
    \E p \in Procs :
        \/ Call(p)
        \/ ffmpeg_process(p)
        \/ FfmpegAllocate(p)
        \/ FfmpegExists(p)
        \/ _download(p)
        \/ TransferBegin(p)
        \/ TransferEnd(p)
        \/ TransferFail(p)
        \/ Mux(p)
        \/ download_by_resolution(p)
        \/ download_highest_resolution_progressive(p)
        \/ download_by_itag(p)

Spec == Init /\ [][Next]_vars

(***************************************************************************)
(* Two orchestrators run ffmpeg_process at once on one target directory.   *)
(***************************************************************************)
InitRace ==
    /\ catalog \in AdaptiveCatalogs
    /\ op \in FfmpegOps
    /\ dir \in StaleDirs({"T_video_0.mp4"})
    /\ dir0 = dir
    /\ InitProcs([p \in Procs |-> MaxRaceRuns])

NextRace ==
    \E p \in Procs :
        \/ Call(p)
        \/ ffmpeg_process(p)
        \/ FfmpegAllocate(p)
        \/ FfmpegExists(p)
        \/ _download(p)
        \/ TransferBegin(p)
        \/ TransferEnd(p)
        \/ TransferFail(p)
        \/ Mux(p)

SpecRace == InitRace /\ [][NextRace]_vars

(***************************************************************************)
(* The command line: main, run again and again.                            *)
(***************************************************************************)
Args == [url : BOOLEAN, playlist : BOOLEAN, audio : BOOLEAN, list : BOOLEAN]

InitMain ==
    /\ catalog \in Catalogs
    /\ op \in {[fn |-> "main", args |-> a] : a \in Args}
    /\ dir \in StaleDirs({"T.mp4"})
    /\ dir0 = dir
    /\ InitProcs([p \in Procs |-> IF p = "A" THEN MaxRuns ELSE 0])

NextMain ==
    \E p \in Procs :
        \/ Call(p)
        \/ main(p)
        \/ download_video(p)
        \/ download_audio(p)
        \/ MainPlaylist(p)
        \/ download_playlist_audio(p)
        \/ TransferBegin(p)
        \/ TransferEnd(p)
        \/ TransferFail(p)

SpecMain == InitMain /\ [][NextMain]_vars

(***************************************************************************)
(* _unique_name called again and again on a directory that starts empty;   *)
(* between two calls the caller creates the file of the name it was given, *)
(* or does not.                                                            *)
(***************************************************************************)
InitAlloc ==
    /\ catalog = <<>>
    /\ op \in {[fn |-> "_unique_name", base |-> b, subtype |-> s, media_type |-> m] :
                  b \in {"T", "U"}, s \in {"mp4", "webm"}, m \in {"video", "audio"}}
    /\ dir = <<>>
    /\ dir0 = dir
    /\ InitProcs([p \in Procs |-> 0])

UniqueNameCall ==
    /\ Len(allocs) < MaxCalls
    /\ allocs' = Append(allocs,
                        [name |-> _unique_name(op.base, op.subtype,
                                               op.media_type, dir),
                         created |-> FALSE])
    /\ UNCHANGED <<catalog, op, dir, dir0, limit, pc, run, frame, events>>

CreateAllocated ==
    /\ allocs # <<>>
    /\ ~allocs[Len(allocs)].created
    /\ allocs' = [allocs EXCEPT ![Len(allocs)].created = TRUE]
    /\ dir' = written(dir, allocs[Len(allocs)].name \o "." \o op.subtype, 1)
    /\ UNCHANGED <<catalog, op, dir0, limit, pc, run, frame, events>>

NextAlloc == UniqueNameCall \/ CreateAllocated

SpecAlloc == InitAlloc /\ [][NextAlloc]_vars

(***************************************************************************)
(* What a run did, read from the events of its process.                    *)
(***************************************************************************)
Orchestrator == "A"

HasEv(p, k, name) ==
    \E i \in 1..Len(events[p]) :
        events[p][i].run = k /\ events[p][i].ev = name

HasPhaseEv(p, k, name, phase) ==
    \E i \in 1..Len(events[p]) :
        /\ events[p][i].run = k
        /\ events[p][i].ev = name
        /\ events[p][i].phase = phase

\* The transfers of the runs ks that wrote to path.
Transfers(p, ks, path) ==
    {i \in 1..Len(events[p]) :
        /\ events[p][i].run \in ks
        /\ events[p][i].ev = "transfer_begin"
        /\ events[p][i].path = path}

Finished(p, k) == HasEv(p, k, "return") \/ HasEv(p, k, "raise")

\* The run k selected its streams and went through its downloads without a
\* failed transfer.
Downloaded(p, k) ==
    /\ ~HasEv(p, k, "transfer_fail")
    /\ \/ HasEv(p, k, "mux")
       \/ HasEv(p, k, "return") /\ ~HasEv(p, k, "not_found")

BestAdaptive == op.fn = "ffmpeg_process" /\ op.resolution \in {None, "best"}

\* The paths the last run of p resolved for its streams.
TargetPaths(p) ==
    IF op.fn = "ffmpeg_process"
    THEN {frame[p].video_path, frame[p].audio_path}
    ELSE {frame[p].file_path}

(***************************************************************************)
(* C1: a run that follows a run which went through its downloads with      *)
(* every transfer succeeding performs no transfer and reports "already     *)
(* downloaded"; over the first two runs, each selected stream whose file   *)
(* was not in the directory before the first run is transferred exactly    *)
(* once.  Both for the single-stream functions and for ffmpeg_process.     *)
(***************************************************************************)
C1_Idempotent ==
    \A p \in Procs : \A k \in 2..run[p] :
        (Downloaded(p, k - 1) /\ Finished(p, k)) =>
            /\ ~HasEv(p, k, "transfer_begin")
            /\ HasEv(p, k, "already")
            /\ HasEv(p, k, "return")
            /\ (k = 2 /\ run[p] = 2) =>
                 \A path \in TargetPaths(p) :
                     /\ Cardinality(Transfers(p, {1, 2}, path)) <= 1
                     /\ path \notin DOMAIN dir0 =>
                            Cardinality(Transfers(p, {1, 2}, path)) = 1

C1_Witness ==
    /\ op.fn = "ffmpeg_process"
    /\ run[Orchestrator] = 2
    /\ Finished(Orchestrator, 2)
    /\ HasPhaseEv(Orchestrator, 1, "transfer_end", "video")
    /\ HasPhaseEv(Orchestrator, 1, "transfer_end", "audio")
    /\ HasPhaseEv(Orchestrator, 2, "already", "both")

(***************************************************************************)
(* C2: the name _unique_name returned has no file "{name}.mp4" in the      *)
(* directory when it returns, and the transfer that follows never writes   *)
(* to a path that was in the directory before the allocation.              *)
(***************************************************************************)
C2_NeverOverwrites ==
    \A p \in Procs :
        /\ pc[p] = "ffmpeg_exists" =>
              /\ ~path_exists(dir, frame[p].video_file_name \o "." \o "mp4")
              /\ ~path_exists(dir, frame[p].audio_file_name \o "." \o "mp4")
        /\ (pc[p] = "transferring" /\ frame[p].phase \in {"video", "audio"}) =>
              frame[p].file_path \notin frame[p].dir_at_alloc

(***************************************************************************)
(* C4: ffmpeg_process with resolution None or "best" on a catalog without  *)
(* any non-progressive stream prints a message, transfers nothing, muxes   *)
(* nothing and returns without raising.                                    *)
(***************************************************************************)
NoAdaptiveStream == \A i \in 1..Len(catalog) : catalog[i].progressive

C4_BestNotFoundReturns ==
    \A p \in Procs : \A k \in 1..run[p] :
        (BestAdaptive /\ NoAdaptiveStream /\ Finished(p, k)) =>
            /\ HasEv(p, k, "not_found")
            /\ HasEv(p, k, "return")
            /\ ~HasEv(p, k, "raise")
            /\ ~HasEv(p, k, "transfer_begin")
            /\ ~HasEv(p, k, "mux")

(***************************************************************************)
(* C5: with at least one non-progressive video stream in the catalog,      *)
(* ffmpeg_process with None or "best" selects a non-progressive stream of  *)
(* the highest resolution, and an mp4 one when an mp4 stream has that      *)
(* resolution; also when the catalog has no non-progressive mp4 stream.    *)
(***************************************************************************)
AdaptiveVideo == {i \in 1..Len(catalog) :
                     ~catalog[i].progressive /\ catalog[i].resolution # None}

Highest(I) == {i \in I : \A j \in I : NumericValue[catalog[j].resolution]
                                       <= NumericValue[catalog[i].resolution]}

Mp4(I) == {i \in I : catalog[i].subtype = "mp4"}

SelectionDone(p) == run[p] >= 1 /\ pc[p] # op.fn

C5_BestAdaptiveSelection ==
    \A p \in Procs :
        (BestAdaptive /\ AdaptiveVideo # {} /\ SelectionDone(p)) =>
            LET best == IF Mp4(Highest(AdaptiveVideo)) # {}
                        THEN Mp4(Highest(AdaptiveVideo))
                        ELSE Highest(AdaptiveVideo)
            IN  \E i \in best : frame[p].video_stream = catalog[i]

(***************************************************************************)
(* C6: download_highest_resolution_progressive selects a progressive       *)
(* stream of the numerically highest resolution among the progressive      *)
(* streams, the last such stream of the catalog; without a progressive     *)
(* stream it prints a message and transfers nothing.                       *)
(***************************************************************************)
Progressive == {i \in 1..Len(catalog) : catalog[i].progressive}

C6_BestProgressive ==
    \A p \in Procs :
        (op.fn = "download_highest_resolution_progressive" /\ SelectionDone(p)) =>
            IF Progressive = {}
            THEN /\ frame[p].stream = NoStream
                 /\ HasEv(p, run[p], "not_found")
                 /\ HasEv(p, run[p], "return")
                 /\ ~HasEv(p, run[p], "transfer_begin")
                 /\ dir = dir0
            ELSE \E i \in Highest(Progressive) :
                    /\ \A j \in Highest(Progressive) : j <= i
                    /\ frame[p].stream = catalog[i]

C6_Witness ==
    /\ op.fn = "download_highest_resolution_progressive"
    /\ \E i, j \in Progressive : i < j /\ i \in Highest(Progressive)
                                  /\ j \notin Highest(Progressive)
    /\ HasEv(Orchestrator, 1, "transfer_end")

(***************************************************************************)
(* C8: in a run of ffmpeg_process the audio transfer begins only after     *)
(* the download of the video has completed, no transfer begins while       *)
(* another is under way, the mux command is invoked at most once and only  *)
(* after both downloads have completed, and never after a failed transfer. *)
(***************************************************************************)
Completes(e, phase) ==
    e.phase = phase /\ e.ev \in {"transfer_end", "already", "skip"}

C8_Ordered ==
    \A p \in Procs :
        LET E == events[p]
            Before(i, phase) ==
                \E j \in 1..(i - 1) : E[j].run = E[i].run /\ Completes(E[j], phase)
        IN  op.fn = "ffmpeg_process" =>
            \A i \in 1..Len(E) :
                /\ (E[i].ev = "transfer_begin" /\ E[i].phase = "audio") =>
                       Before(i, "video")
                /\ E[i].ev = "transfer_begin" =>
                       \A j \in 1..(i - 1) :
                           (E[j].ev = "transfer_begin" /\ E[j].run = E[i].run) =>
                               \E k \in (j + 1)..(i - 1) : E[k].ev = "transfer_end"
                /\ E[i].ev = "mux" =>
                       /\ Before(i, "video")
                       /\ Before(i, "audio")
                       /\ \A j \in 1..Len(E) :
                              (E[j].run = E[i].run /\ E[j].ev = "mux") => j = i
                       /\ ~HasEv(p, E[i].run, "transfer_fail")

C8_Witness ==
    /\ op.fn = "ffmpeg_process"
    /\ HasPhaseEv(Orchestrator, 1, "transfer_end", "video")
    /\ HasPhaseEv(Orchestrator, 1, "transfer_end", "audio")
    /\ HasEv(Orchestrator, 1, "mux")

(***************************************************************************)
(* C9: download_by_itag, download_by_resolution and ffmpeg_process with a  *)
(* given resolution, on a catalog where no stream matches, print a         *)
(* message, transfer nothing, allocate no name, write no file, invoke no   *)
(* mux and return without raising.                                         *)
(***************************************************************************)
Explicit ==
    \/ op.fn \in {"download_by_itag", "download_by_resolution"}
    \/ op.fn = "ffmpeg_process" /\ ~BestAdaptive

Matches(s) ==
    CASE op.fn = "download_by_itag" -> s.itag = op.itag
      [] op.fn = "download_by_resolution" -> s.resolution = op.resolution
      [] op.fn = "ffmpeg_process" ->
             ~s.progressive /\ s.resolution = op.resolution
      [] OTHER -> FALSE

NoMatch == \A i \in 1..Len(catalog) : ~Matches(catalog[i])

CounterName(c) == candidate_name(op.base, op.media_type, c)

C3_CountersInOrder ==
    /\ \A i \in 1..Len(allocs) : allocs[i].name = CounterName(i - 1)
    /\ \A i, j \in 1..Len(allocs) : i # j => allocs[i].name # allocs[j].name

(***************************************************************************)
(* C3, amended: when after each call the file "{name}.{subtype}" of the    *)
(* returned name is created before the next call, the calls return the     *)
(* counters 0, 1, ..., n-1 in order and distinct names; a call that        *)
(* follows a call whose file was not created returns that call's name      *)
(* again.                                                                  *)
(***************************************************************************)
C3_CountersWhenCreated ==
    \A i \in 1..Len(allocs) :
        /\ (\A j \in 1..(i - 1) : allocs[j].created) =>
               /\ allocs[i].name = CounterName(i - 1)
               /\ \A j \in 1..(i - 1) : allocs[j].name # allocs[i].name
        /\ (i > 1 /\ ~allocs[i - 1].created) => allocs[i].name = allocs[i - 1].name

C3_Witness ==
    /\ Len(allocs) >= 3
    /\ allocs[1].created
    /\ allocs[2].created
    /\ allocs[3].name = CounterName(2)

(***************************************************************************)
(* C7: main invoked with --list and a video url lists the streams of the   *)
(* video and performs no transfer.                                         *)
(***************************************************************************)
C7_ListWithoutDownload ==
    \A p \in Procs : \A k \in 1..run[p] :
        (op.fn = "main" /\ op.args.list /\ op.args.url /\ Finished(p, k)) =>
            /\ HasEv(p, k, "display_streams")
            /\ ~HasEv(p, k, "transfer_begin")

(***************************************************************************)
(* C10: nothing keeps two concurrent runs of ffmpeg_process from the same  *)
(* names and the same file: a run about to allocate is given the names     *)
(* that a run which has allocated and not yet written holds, and a run     *)
(* about to transfer to the path another run is writing opens that file    *)
(* too.                                                                    *)
(***************************************************************************)
Allocated(q) == pc[q] \in {"ffmpeg_exists", "_download", "transfer"}
                    /\ frame[q].phase \in {None, "video"}

C10_NothingExcludesTheRace ==
    \A p, q \in Procs :
        /\ (p # q /\ pc[p] = "ffmpeg_allocate" /\ Allocated(q)) =>
              /\ _unique_name(frame[p].title, "mp4", "video", dir)
                     = frame[q].video_file_name
              /\ _unique_name(frame[p].title, "mp4", "audio", dir)
                     = frame[q].audio_file_name
        /\ (p # q /\ pc[p] = "transfer" /\ pc[q] = "transferring"
                /\ frame[p].file_path = frame[q].file_path) =>
              ~exists_at_path(frame[p].stream, dir, frame[p].file_path)

C10_Witness ==
    /\ pc["A"] = "transferring"
    /\ pc["B"] = "transferring"
    /\ frame["A"].video_file_name = frame["B"].video_file_name
    /\ frame["A"].file_path = frame["B"].file_path
    /\ frame["A"].dir_at_alloc = frame["B"].dir_at_alloc

====
